---- MODULE Spec2Model ----
(***************************************************************************)
(* mutpy/controller.py: MutationScore, MutationController and Mutator.     *)
(*                                                                         *)
(* The controller is one sequential process (pc is its position); the      *)
(* runner thread of a mutant is a second process that runs the tests of    *)
(* the mutant's suite one by one.  The environment (loaders, operators,    *)
(* test outcomes, compile/exec outcomes, interrupt requests, the passage   *)
(* of time during join) is chosen nondeterministically.                    *)
(***************************************************************************)
EXTENDS Integers, Sequences, FiniteSets, TLC

VARIABLES
    pc,               \* position of the controller inside run()
    views,            \* notifications received by the views, in order
    names,            \* <<number of target names, number of test names>>
    operators,        \* Mutator.operators (registration order)
    score,            \* the MutationScore of run_mutation
    score_assigned,   \* whether the local `score` of run_mutation is bound
    test_modules,     \* list of (test_module, target_test, duration)
    test_idx,         \* how many items test_loader.load() has yielded
    target_idx,       \* how many items target_loader.load() has yielded
    mut_idx,          \* how many mutations mutate() has yielded for the target
    mutant_module,    \* the variant built by create_mutant_module (None if it failed)
    runner,           \* the runner thread of run_mutation_thread and its result
    alive_threads,    \* identifiers of the runner threads that are alive
    threads_started,  \* number of runner threads started so far
    join_timed_out,   \* the last join(live_time) returned because time ran out
    stdout_enabled,   \* state of the StdoutManager
    injected,         \* module the test modules refer to (None = the original)
    baseline,         \* results returned by run_test for the unmutated suites
    interrupted,      \* a KeyboardInterrupt was delivered to the controller
    fault             \* the exception that escaped run(), or "none"

vars == <<pc, views, names, operators, score, score_assigned, test_modules,
          test_idx, target_idx, mut_idx, mutant_module, runner, alive_threads,
          threads_started, join_timed_out, stdout_enabled, injected,
          baseline, interrupted, fault>>

----------------------------------------------------------------------------
(* Bounds of the model *)

MaxTargets == 2       \* target names given to the target loader
MaxSuites == 2        \* test names given to the test loader
MaxOperators == 2     \* operators registered in the Mutator
MaxDuration == 2      \* longest recorded duration of a baseline suite, in ticks (at least 1)
Unit == 2             \* ticks in one time unit (one second) of the durations
TestsPerModule == 1   \* test cases found in one test module
FailfastTests == 5    \* test names of the run with one long suite (SpecFailfast)

----------------------------------------------------------------------------
(* MutationScore *)

MutationScore ==
    [killed_mutants |-> 0, timeout_mutants |-> 0,
     incompetent_mutants |-> 0, survived_mutants |-> 0]

inc_killed(s) == [s EXCEPT !.killed_mutants = @ + 1]

inc_timeout(s) == [s EXCEPT !.timeout_mutants = @ + 1]

inc_incompetent(s) == [s EXCEPT !.incompetent_mutants = @ + 1]

inc_survived(s) == [s EXCEPT !.survived_mutants = @ + 1]

all_mutants(s) ==
    s.killed_mutants + s.timeout_mutants + s.incompetent_mutants + s.survived_mutants

\* count() whose denominator keeps the incompetent mutants
count_AllMutants(s) ==
    LET bottom == all_mutants(s)
    IN  IF bottom # 0
        THEN [num |-> (s.killed_mutants + s.timeout_mutants) * 100, den |-> bottom]
        ELSE [num |-> 0, den |-> 1]

\* MutationScore.count: ((killed + timeout) / bottom) * 100 if bottom else 0,
\* as the exact fraction num/den (the quotient is not rounded)
count(s) ==
    LET bottom == all_mutants(s) - s.incompetent_mutants
    IN  IF bottom # 0
        THEN [num |-> (s.killed_mutants + s.timeout_mutants) * 100, den |-> bottom]
        ELSE [num |-> 0, den |-> 1]

----------------------------------------------------------------------------
(* Views: every notify_* call appends one notification *)

Notify(kind, arg) == Append(views, [t |-> kind, arg |-> arg])

Classifications == {"incompetent", "killed", "survived", "timeout"}

----------------------------------------------------------------------------
(* Mutator.mutate: operators in registration order, each operator's        *)
(* mutations in the order it yields them.                                   *)

\* what operator op yields for a target: a fixed, finite list of
\* (mutant, lineno) pairs (operators are a pure function of the target)
OperatorMutate(op, target) ==
    LET n == IF op % 2 = 1 THEN 1 ELSE (IF target = 1 THEN 2 ELSE 0)
    IN  [k \in 1..n |-> [mutant |-> <<target, op, k>>, lineno |-> 10 * op + k]]

RECURSIVE MutateFrom(_, _, _)
MutateFrom(ops, i, target) ==
    IF i > Len(ops) THEN <<>>
    ELSE [k \in 1..Len(OperatorMutate(ops[i], target)) |->
             [op |-> ops[i],
              lineno |-> OperatorMutate(ops[i], target)[k].lineno,
              mutant |-> OperatorMutate(ops[i], target)[k].mutant]]
         \o MutateFrom(ops, i + 1, target)

\* mutate that goes through the operators from the last registered to the first
RECURSIVE MutateBack(_, _, _)
MutateBack(ops, i, target) ==
    IF i < 1 THEN <<>>
    ELSE [k \in 1..Len(OperatorMutate(ops[i], target)) |->
             [op |-> ops[i],
              lineno |-> OperatorMutate(ops[i], target)[k].lineno,
              mutant |-> OperatorMutate(ops[i], target)[k].mutant]]
         \o MutateBack(ops, i - 1, target)

mutate_LastOperatorFirst(ops, target) == MutateBack(ops, Len(ops), target)

mutate(ops, target) == MutateFrom(ops, 1, target)

----------------------------------------------------------------------------
(* Results of a test run *)

\* Python's None
None == <<>>

\* unittest.TestResult of a baseline run
TestResult(suite, ok) == [suite |-> suite, successful |-> ok]

\* utils.CustomTestResult of a mutant run
CustomTestResult ==
    [type_error |-> None, failures |-> <<>>, errors |-> <<>>,
     unexpectedSuccesses |-> <<>>, testsRun |-> 0, shouldStop |-> FALSE,
     failfast |-> FALSE]

NoThread == [ident |-> 0, suite |-> <<>>, result |-> CustomTestResult,
             live_time |-> 0]

----------------------------------------------------------------------------
(* Initial state: a constructed MutationController, run() about to start *)

OperatorLists ==
    {ops \in UNION {[1..n -> 1..MaxOperators] : n \in 0..MaxOperators} :
        \A i, j \in DOMAIN ops : i # j => ops[i] # ops[j]}

Init ==
    /\ pc = "run"
    /\ views = <<>>
    /\ names \in (0..MaxTargets) \X (0..MaxSuites)
    /\ operators \in OperatorLists
    /\ score = MutationScore
    /\ score_assigned = FALSE
    /\ test_modules = <<>>
    /\ test_idx = 0
    /\ target_idx = 0
    /\ mut_idx = 0
    /\ mutant_module = None
    /\ runner = NoThread
    /\ alive_threads = {}
    /\ threads_started = 0
    /\ join_timed_out = FALSE
    /\ stdout_enabled = TRUE
    /\ injected = None
    /\ baseline = <<>>
    /\ interrupted = FALSE
    /\ fault = "none"

----------------------------------------------------------------------------
(* MutationController.run and run_mutation *)

\* run(): notify_initialize, then enter the try block of run_mutation
Run ==
    /\ pc = "run"
    /\ views' = Notify("initialize", names)
    /\ pc' = "load_and_check_tests"
    /\ UNCHANGED <<names, operators, score, score_assigned, test_modules,
                   test_idx, target_idx, mut_idx, mutant_module, runner,
                   alive_threads, threads_started, join_timed_out,
                   stdout_enabled, injected, baseline, interrupted, fault>>

\* except utils.ModulesLoaderException in run(): notify_cant_load
CantLoad(name) ==
    /\ views' = Notify("cant_load", name)
    /\ pc' = "done"

\* load_and_check_tests: test_loader.load() yields the next test module and
\* run_test starts its suite with stdout disabled
LoadTest ==
    /\ pc = "load_and_check_tests"
    /\ test_idx < names[2]
    /\ test_idx' = test_idx + 1
    /\ stdout_enabled' = FALSE
    /\ pc' = "run_test"
    /\ UNCHANGED <<views, names, operators, score, score_assigned,
                   test_modules, target_idx, mut_idx, mutant_module, runner,
                   alive_threads, threads_started, join_timed_out, injected,
                   baseline, interrupted, fault>>

\* test_loader.load() raises ModulesLoaderException for the next test name
LoadTestError ==
    /\ pc = "load_and_check_tests"
    /\ test_idx < names[2]
    /\ CantLoad(<<"test", test_idx + 1>>)
    /\ UNCHANGED <<names, operators, score, score_assigned, test_modules,
                   test_idx, target_idx, mut_idx, mutant_module, runner,
                   alive_threads, threads_started, join_timed_out,
                   stdout_enabled, injected, baseline, interrupted, fault>>

\* load_and_check_tests that keeps a test module whatever its result
RunTestReturn_NoCheck ==
    /\ pc = "run_test"
    /\ \E ok \in BOOLEAN, duration \in 1..MaxDuration :
         /\ baseline' = Append(baseline, TestResult(test_idx, ok))
         /\ test_modules' =
               Append(test_modules,
                      [test_module |-> test_idx, duration |-> duration])
    /\ pc' = "load_and_check_tests"
    /\ stdout_enabled' = TRUE
    /\ UNCHANGED <<views, names, operators, score, score_assigned, test_idx,
                   target_idx, mut_idx, mutant_module, runner, alive_threads,
                   threads_started, join_timed_out, injected, interrupted,
                   fault>>

\* run_test returns (result, duration); load_and_check_tests keeps the module
\* when result.wasSuccessful(), else raises TestsFailAtOriginal(result), which
\* run() reports with notify_original_tests_fail
RunTestReturn ==
    /\ pc = "run_test"
    /\ \E ok \in BOOLEAN, duration \in 1..MaxDuration :
         LET result == TestResult(test_idx, ok) IN
         /\ baseline' = Append(baseline, result)
         /\ IF result.successful
            THEN /\ test_modules' =
                      Append(test_modules,
                             [test_module |-> test_idx, duration |-> duration])
                 /\ pc' = "load_and_check_tests"
                 /\ views' = views
            ELSE /\ test_modules' = test_modules
                 /\ views' = Notify("original_tests_fail", result)
                 /\ pc' = "done"
    /\ stdout_enabled' = TRUE
    /\ UNCHANGED <<names, operators, score, score_assigned, test_idx,
                   target_idx, mut_idx, mutant_module, runner, alive_threads,
                   threads_started, join_timed_out, injected, interrupted,
                   fault>>

\* load_and_check_tests returns; score = MutationScore(); notify_passed;
\* notify_start
BaselinePassed ==
    /\ pc = "load_and_check_tests"
    /\ test_idx = names[2]
    /\ score' = MutationScore
    /\ score_assigned' = TRUE
    /\ views' = Append(Notify("passed", test_modules), [t |-> "start", arg |-> 0])
    /\ pc' = "target_loader"
    /\ UNCHANGED <<names, operators, test_modules, test_idx, target_idx,
                   mut_idx, mutant_module, runner, alive_threads,
                   threads_started, join_timed_out, stdout_enabled, injected,
                   baseline, interrupted, fault>>

\* run_mutation: target_loader.load() yields the next target;
\* mutate_module parses it (create_target_ast) and starts mutate()
LoadTarget ==
    /\ pc = "target_loader"
    /\ target_idx < names[1]
    /\ target_idx' = target_idx + 1
    /\ mut_idx' = 0
    /\ pc' = "mutate_module"
    /\ UNCHANGED <<views, names, operators, score, score_assigned,
                   test_modules, test_idx, mutant_module, runner,
                   alive_threads, threads_started, join_timed_out,
                   stdout_enabled, injected, baseline, interrupted, fault>>

\* target_loader.load() raises ModulesLoaderException for the next target name
LoadTargetError ==
    /\ pc = "target_loader"
    /\ target_idx < names[1]
    /\ CantLoad(<<"target", target_idx + 1>>)
    /\ UNCHANGED <<names, operators, score, score_assigned, test_modules,
                   test_idx, target_idx, mut_idx, mutant_module, runner,
                   alive_threads, threads_started, join_timed_out,
                   stdout_enabled, injected, baseline, interrupted, fault>>

\* return score in run_mutation, then notify_end(score, ...) in run();
\* reading the unbound local `score` raises UnboundLocalError, which no
\* handler of run() catches
ReturnScore ==
    IF score_assigned
    THEN /\ views' = Notify("end", score)
         /\ pc' = "done"
         /\ fault' = fault
    ELSE /\ views' = views
         /\ pc' = "crashed"
         /\ fault' = "UnboundLocalError: score"

\* the for loop over target_loader.load() ends
TargetsDone ==
    /\ pc = "target_loader"
    /\ target_idx = names[1]
    /\ ReturnScore
    /\ UNCHANGED <<names, operators, score, score_assigned, test_modules,
                   test_idx, target_idx, mut_idx, mutant_module, runner,
                   alive_threads, threads_started, join_timed_out,
                   stdout_enabled, injected, baseline, interrupted>>

\* the positions of the controller inside the try block of run_mutation
TryBlock ==
    {"load_and_check_tests", "run_test", "target_loader", "mutate_module",
     "create_mutant_module", "exec", "mutate_module_else",
     "run_tests_with_mutant", "join", "append_score", "inc_timeout",
     "inc_incompetent", "inc_survived", "inc_killed"}

\* KeyboardInterrupt raised in the controller inside the try block of
\* run_mutation: except KeyboardInterrupt: pass, then return score
Interrupt ==
    /\ pc \in TryBlock
    /\ interrupted' = TRUE
    /\ ReturnScore
    /\ UNCHANGED <<names, operators, score, score_assigned, test_modules,
                   test_idx, target_idx, mut_idx, mutant_module, runner,
                   alive_threads, threads_started, join_timed_out,
                   stdout_enabled, injected, baseline>>

----------------------------------------------------------------------------
(* MutationController.mutate_module and create_mutant_module *)

\* the mutation the generator yielded last
Mutation == mutate(operators, target_idx)[mut_idx]

\* mutate_module that numbers the mutations of each target from 1
NextMutation_NumberedPerTarget ==
    /\ pc = "mutate_module"
    /\ mut_idx < Len(mutate(operators, target_idx))
    /\ mut_idx' = mut_idx + 1
    /\ LET mutation_number == mut_idx + 1
           m == mutate(operators, target_idx)[mut_idx + 1]
       IN  views' = Notify("mutation",
                           [number |-> mutation_number, op |-> m.op,
                            filename |-> target_idx, lineno |-> m.lineno])
    /\ pc' = "create_mutant_module"
    /\ UNCHANGED <<names, operators, score, score_assigned, test_modules,
                   test_idx, target_idx, mutant_module, runner, alive_threads,
                   threads_started, join_timed_out, stdout_enabled, injected,
                   baseline, interrupted, fault>>

\* mutate() yields the next mutation: mutation_number, notify_mutation
NextMutation ==
    /\ pc = "mutate_module"
    /\ mut_idx < Len(mutate(operators, target_idx))
    /\ mut_idx' = mut_idx + 1
    /\ LET mutation_number == all_mutants(score) + 1
           m == mutate(operators, target_idx)[mut_idx + 1]
       IN  views' = Notify("mutation",
                           [number |-> mutation_number, op |-> m.op,
                            filename |-> target_idx, lineno |-> m.lineno])
    /\ pc' = "create_mutant_module"
    /\ UNCHANGED <<names, operators, score, score_assigned, test_modules,
                   test_idx, target_idx, mutant_module, runner, alive_threads,
                   threads_started, join_timed_out, stdout_enabled, injected,
                   baseline, interrupted, fault>>

\* mutate() is exhausted: mutate_module returns
ModuleDone ==
    /\ pc = "mutate_module"
    /\ mut_idx = Len(mutate(operators, target_idx))
    /\ pc' = "target_loader"
    /\ UNCHANGED <<views, names, operators, score, score_assigned,
                   test_modules, test_idx, target_idx, mut_idx, mutant_module,
                   runner, alive_threads, threads_started, join_timed_out,
                   stdout_enabled, injected, baseline, interrupted, fault>>

\* create_mutant_module whose except clause returns None without notifying
CreateMutantModule_Silent ==
    /\ pc = "create_mutant_module"
    /\ \E compiles \in BOOLEAN :
         IF compiles
         THEN /\ stdout_enabled' = FALSE
              /\ pc' = "exec"
              /\ UNCHANGED mutant_module
         ELSE /\ mutant_module' = None
              /\ pc' = "mutate_module_else"
              /\ UNCHANGED stdout_enabled
    /\ UNCHANGED <<views, names, operators, score, score_assigned,
                   test_modules, test_idx, target_idx, mut_idx, runner,
                   alive_threads, threads_started, join_timed_out, injected,
                   baseline, interrupted, fault>>

\* create_mutant_module: compile(mutant_ast); on success disable stdout and
\* start exec; a compile error is an Exception: notify_incompetent, return None
CreateMutantModule ==
    /\ pc = "create_mutant_module"
    /\ \E compiles \in BOOLEAN :
         IF compiles
         THEN /\ stdout_enabled' = FALSE
              /\ pc' = "exec"
              /\ UNCHANGED <<views, mutant_module>>
         ELSE /\ views' = Notify("incompetent", "compile")
              /\ mutant_module' = None
              /\ pc' = "mutate_module_else"
              /\ UNCHANGED stdout_enabled
    /\ UNCHANGED <<names, operators, score, score_assigned, test_modules,
                   test_idx, target_idx, mut_idx, runner, alive_threads,
                   threads_started, join_timed_out, injected, baseline,
                   interrupted, fault>>

\* what exec(mutant_code, ...) can do: return, raise an Exception, or raise
\* a BaseException that is no Exception (SystemExit from sys.exit())
ExecOutcomes == {"return", "Exception", "SystemExit"}

\* exec of the variant's module-level code ends
ExecReturn ==
    /\ pc = "exec"
    /\ \E outcome \in ExecOutcomes :
         CASE outcome = "return" ->
                /\ stdout_enabled' = TRUE
                /\ mutant_module' = Mutation.mutant
                /\ pc' = "run_tests_with_mutant"
                /\ UNCHANGED <<views, fault>>
           [] outcome = "Exception" ->
                /\ views' = Notify("incompetent", "exec")
                /\ mutant_module' = None
                /\ pc' = "mutate_module_else"
                /\ UNCHANGED <<stdout_enabled, fault>>
           [] outcome = "SystemExit" ->
                /\ fault' = "SystemExit"
                /\ pc' = "crashed"
                /\ UNCHANGED <<views, mutant_module, stdout_enabled>>
    /\ UNCHANGED <<names, operators, score, score_assigned, test_modules,
                   test_idx, target_idx, mut_idx, runner, alive_threads,
                   threads_started, join_timed_out, injected, baseline,
                   interrupted>>

\* mutate_module without the else branch: the incompetent mutant is not counted
MutateModuleElse_NotCounted ==
    /\ pc = "mutate_module_else"
    /\ pc' = "mutate_module"
    /\ UNCHANGED <<views, names, operators, score, score_assigned,
                   test_modules, test_idx, target_idx, mut_idx, mutant_module,
                   runner, alive_threads, threads_started, join_timed_out,
                   stdout_enabled, injected, baseline, interrupted, fault>>

\* mutate_module: mutant_module is None, so score.inc_incompetent()
MutateModuleElse ==
    /\ pc = "mutate_module_else"
    /\ score' = inc_incompetent(score)
    /\ pc' = "mutate_module"
    /\ UNCHANGED <<views, names, operators, score_assigned, test_modules,
                   test_idx, target_idx, mut_idx, mutant_module, runner,
                   alive_threads, threads_started, join_timed_out,
                   stdout_enabled, injected, baseline, interrupted, fault>>

----------------------------------------------------------------------------
(* run_tests_with_mutant, create_test_suite, run_mutation_thread *)

timeout_factor == 5

\* the test cases unittest loads from a test module, in order
TestsOf(test_module) == [k \in 1..TestsPerModule |-> <<test_module, k>>]

RECURSIVE SuiteFrom(_, _)
SuiteFrom(modules, i) ==
    IF i > Len(modules) THEN <<>>
    ELSE TestsOf(modules[i].test_module) \o SuiteFrom(modules, i + 1)

RECURSIVE DurationFrom(_, _)
DurationFrom(modules, i) ==
    IF i > Len(modules) THEN 0
    ELSE modules[i].duration + DurationFrom(modules, i + 1)

\* create_test_suite: (suite, total_duration); every test module of the
\* list gets the mutant injected in place of the target
create_test_suite(modules) ==
    [suite |-> SuiteFrom(modules, 1), total_duration |-> DurationFrom(modules, 1)]

\* ModuleInjector.inject_to, applied to each test module of the list
inject(modules, module) == IF modules = <<>> THEN injected ELSE module

\* live_time that leaves out the timeout factor
LiveTime_NoFactor(total_duration) ==
    IF total_duration > Unit THEN total_duration ELSE Unit

\* run_mutation_thread: live_time, in ticks (1 second is Unit ticks)
LiveTime(total_duration) ==
    IF total_duration > Unit THEN timeout_factor * total_duration ELSE Unit

\* run_tests_with_mutant that leaves the result's failfast unset
RunTestsWithMutant_NoFailfast ==
    /\ pc = "run_tests_with_mutant"
    /\ LET made == create_test_suite(test_modules) IN
         /\ runner' = [ident |-> threads_started + 1,
                       suite |-> made.suite,
                       result |-> CustomTestResult,
                       live_time |-> LiveTime(made.total_duration)]
         /\ injected' = inject(test_modules, mutant_module)
    /\ threads_started' = threads_started + 1
    /\ alive_threads' = alive_threads \cup {threads_started + 1}
    /\ stdout_enabled' = FALSE
    /\ pc' = "join"
    /\ UNCHANGED <<views, names, operators, score, score_assigned,
                   test_modules, test_idx, target_idx, mut_idx, mutant_module,
                   join_timed_out, baseline, interrupted, fault>>

\* run_tests_with_mutant up to runner_thread.join: build the suite, a fresh
\* result with failfast, create the thread, disable stdout, start the thread
RunTestsWithMutant ==
    /\ pc = "run_tests_with_mutant"
    /\ LET made == create_test_suite(test_modules) IN
         /\ runner' = [ident |-> threads_started + 1,
                       suite |-> made.suite,
                       result |-> [CustomTestResult EXCEPT !.failfast = TRUE],
                       live_time |-> LiveTime(made.total_duration)]
         /\ injected' = inject(test_modules, mutant_module)
    /\ threads_started' = threads_started + 1
    /\ alive_threads' = alive_threads \cup {threads_started + 1}
    /\ stdout_enabled' = FALSE
    /\ pc' = "join"
    /\ UNCHANGED <<views, names, operators, score, score_assigned,
                   test_modules, test_idx, target_idx, mut_idx, mutant_module,
                   join_timed_out, baseline, interrupted, fault>>

----------------------------------------------------------------------------
(* The runner thread: suite.run(result) *)

\* failfast decorator of unittest.TestResult: stop() when failfast is set
Failfast(r) == [r EXCEPT !.shouldStop = @ \/ r.failfast]

\* what running one test case can record: nothing (success), a failure, an
\* error, an execution-environment error, an unexpected success, or both a
\* failure and an error (one raised by the test method, the other by tearDown)
TestOutcomes ==
    {"success", "failure", "error", "type_error", "unexpected_success",
     "failure_then_error", "error_then_failure"}

\* the (test, formatted traceback) pair a TestResult records; the traceback
\* text tells the exception
Entry(test, kind) == <<test, <<"traceback", test, kind>>>>

\* TestResult.addFailure, with its failfast decorator
addFailure(r, test) ==
    Failfast([r EXCEPT !.failures = Append(@, Entry(test, "failure"))])

\* TestResult.addError (not an execution-environment error), with its
\* failfast decorator
addPlainError(r, test) ==
    Failfast([r EXCEPT !.errors = Append(@, Entry(test, "error"))])

\* CustomTestResult.addError for an execution-environment error: the error is
\* kept in type_error and not in the errors list
addError(r, entry) == [r EXCEPT !.type_error = entry]

\* what one test case adds to the result
AddOutcome(r, test, outcome) ==
    LET started == [r EXCEPT !.testsRun = @ + 1]
    IN  CASE outcome = "success" -> started
          [] outcome = "failure" -> addFailure(started, test)
          [] outcome = "error" -> addPlainError(started, test)
          [] outcome = "failure_then_error" ->
                addPlainError(addFailure(started, test), test)
          [] outcome = "error_then_failure" ->
                addFailure(addPlainError(started, test), test)
          [] outcome = "type_error" ->
                addError(started, Entry(test, "type_error"))
          [] outcome = "unexpected_success" ->
                Failfast([started EXCEPT !.unexpectedSuccesses = Append(@, test)])

\* unittest.TestResult.wasSuccessful
wasSuccessful(r) ==
    /\ Len(r.failures) = 0
    /\ Len(r.errors) = 0
    /\ Len(r.unexpectedSuccesses) = 0

\* TestSuite.run has nothing left to run
SuiteEnded(t) ==
    \/ t.result.testsRun = Len(t.suite)
    \/ t.result.shouldStop

\* the runner thread runs the next test case of its suite
RunnerRunTest ==
    /\ runner.ident \in alive_threads
    /\ ~SuiteEnded(runner)
    /\ \E outcome \in TestOutcomes :
         runner' = [runner EXCEPT !.result =
                       AddOutcome(@, runner.suite[runner.result.testsRun + 1], outcome)]
    /\ UNCHANGED <<pc, views, names, operators, score, score_assigned,
                   test_modules, test_idx, target_idx, mut_idx, mutant_module,
                   alive_threads, threads_started, join_timed_out,
                   stdout_enabled, injected, baseline, interrupted, fault>>

\* a runner thread ends: its suite.run(result) has returned
RunnerExit ==
    /\ \E ident \in alive_threads :
         /\ ident = runner.ident => SuiteEnded(runner)
         /\ alive_threads' = alive_threads \ {ident}
    /\ UNCHANGED <<pc, views, names, operators, score, score_assigned,
                   test_modules, test_idx, target_idx, mut_idx, mutant_module,
                   runner, threads_started, join_timed_out, stdout_enabled,
                   injected, baseline, interrupted, fault>>

----------------------------------------------------------------------------
(* join and append_score_and_notify_views *)

\* Thread.is_alive
is_alive(t) == t.ident \in alive_threads

\* KillableThread.kill: the thread is forcibly terminated
kill(t) == alive_threads \ {t.ident}

\* runner_thread.join(live_time) returns, because the thread has ended or
\* because live_time has passed; then enable_stdout, return, time_reg.stop()
JoinReturn ==
    /\ pc = "join"
    /\ join_timed_out' = is_alive(runner)
    /\ stdout_enabled' = TRUE
    /\ pc' = "append_score"
    /\ UNCHANGED <<views, names, operators, score, score_assigned,
                   test_modules, test_idx, target_idx, mut_idx, mutant_module,
                   runner, alive_threads, threads_started, injected, baseline,
                   interrupted, fault>>

\* append_score_and_notify_views that looks at result.type_error before it
\* asks whether the thread is alive
AppendScore_TypeErrorFirst ==
    /\ pc = "append_score"
    /\ LET result == runner.result IN
       IF result.type_error # None
       THEN /\ alive_threads' = alive_threads
            /\ views' = Notify("incompetent", result.type_error[2])
            /\ pc' = "inc_incompetent"
            /\ fault' = fault
       ELSE IF is_alive(runner)
       THEN /\ alive_threads' = kill(runner)
            /\ views' = Notify("timeout", 0)
            /\ pc' = "inc_timeout"
            /\ fault' = fault
       ELSE /\ alive_threads' = alive_threads
            /\ IF wasSuccessful(result)
               THEN /\ views' = Notify("survived", 0)
                    /\ pc' = "inc_survived"
                    /\ fault' = fault
               ELSE IF result.failures # <<>>
               THEN /\ views' = Notify("killed",
                                       [killer |-> result.failures[1][1],
                                        exception_traceback |-> result.failures[1][2]])
                    /\ pc' = "inc_killed"
                    /\ fault' = fault
               ELSE IF result.errors # <<>>
               THEN /\ views' = Notify("killed",
                                       [killer |-> result.errors[1][1],
                                        exception_traceback |-> result.errors[1][2]])
                    /\ pc' = "inc_killed"
                    /\ fault' = fault
               ELSE /\ views' = views
                    /\ pc' = "crashed"
                    /\ fault' = "UnboundLocalError: killer"
    /\ UNCHANGED <<names, operators, score, score_assigned, test_modules,
                   test_idx, target_idx, mut_idx, mutant_module, runner,
                   threads_started, join_timed_out, stdout_enabled, injected,
                   baseline, interrupted>>

\* append_score_and_notify_views that takes the killer from the errors first
AppendScore_ErrorsFirst ==
    /\ pc = "append_score"
    /\ LET result == runner.result IN
       IF is_alive(runner)
       THEN /\ alive_threads' = kill(runner)
            /\ views' = Notify("timeout", 0)
            /\ pc' = "inc_timeout"
            /\ fault' = fault
       ELSE /\ alive_threads' = alive_threads
            /\ IF result.type_error # None
               THEN /\ views' = Notify("incompetent", result.type_error[2])
                    /\ pc' = "inc_incompetent"
                    /\ fault' = fault
               ELSE IF wasSuccessful(result)
               THEN /\ views' = Notify("survived", 0)
                    /\ pc' = "inc_survived"
                    /\ fault' = fault
               ELSE IF result.errors # <<>>
               THEN /\ views' = Notify("killed",
                                       [killer |-> result.errors[1][1],
                                        exception_traceback |-> result.errors[1][2]])
                    /\ pc' = "inc_killed"
                    /\ fault' = fault
               ELSE IF result.failures # <<>>
               THEN /\ views' = Notify("killed",
                                       [killer |-> result.failures[1][1],
                                        exception_traceback |-> result.failures[1][2]])
                    /\ pc' = "inc_killed"
                    /\ fault' = fault
               ELSE /\ views' = views
                    /\ pc' = "crashed"
                    /\ fault' = "UnboundLocalError: killer"
    /\ UNCHANGED <<names, operators, score, score_assigned, test_modules,
                   test_idx, target_idx, mut_idx, mutant_module, runner,
                   threads_started, join_timed_out, stdout_enabled, injected,
                   baseline, interrupted>>

\* append_score_and_notify_views up to the notification
AppendScore ==
    /\ pc = "append_score"
    /\ LET result == runner.result IN
       IF is_alive(runner)
       THEN /\ alive_threads' = kill(runner)
            /\ views' = Notify("timeout", 0)
            /\ pc' = "inc_timeout"
            /\ fault' = fault
       ELSE /\ alive_threads' = alive_threads
            /\ IF result.type_error # None
               THEN /\ views' = Notify("incompetent", result.type_error[2])
                    /\ pc' = "inc_incompetent"
                    /\ fault' = fault
               ELSE IF wasSuccessful(result)
               THEN /\ views' = Notify("survived", 0)
                    /\ pc' = "inc_survived"
                    /\ fault' = fault
               ELSE IF result.failures # <<>>
               THEN /\ views' = Notify("killed",
                                       [killer |-> result.failures[1][1],
                                        exception_traceback |-> result.failures[1][2]])
                    /\ pc' = "inc_killed"
                    /\ fault' = fault
               ELSE IF result.errors # <<>>
               THEN /\ views' = Notify("killed",
                                       [killer |-> result.errors[1][1],
                                        exception_traceback |-> result.errors[1][2]])
                    /\ pc' = "inc_killed"
                    /\ fault' = fault
               ELSE /\ views' = views
                    /\ pc' = "crashed"
                    /\ fault' = "UnboundLocalError: killer"
    /\ UNCHANGED <<names, operators, score, score_assigned, test_modules,
                   test_idx, target_idx, mut_idx, mutant_module, runner,
                   threads_started, join_timed_out, stdout_enabled, injected,
                   baseline, interrupted>>

\* the score.inc_* call that ends append_score_and_notify_views; with it
\* run_tests_with_mutant returns and its locals (result, runner_thread) are gone
IncScore ==
    /\ pc \in {"inc_timeout", "inc_incompetent", "inc_survived", "inc_killed"}
    /\ score' = CASE pc = "inc_timeout" -> inc_timeout(score)
                  [] pc = "inc_incompetent" -> inc_incompetent(score)
                  [] pc = "inc_survived" -> inc_survived(score)
                  [] pc = "inc_killed" -> inc_killed(score)
    /\ runner' = NoThread
    /\ join_timed_out' = FALSE
    /\ pc' = "mutate_module"
    /\ UNCHANGED <<views, names, operators, score_assigned, test_modules,
                   test_idx, target_idx, mut_idx, mutant_module,
                   alive_threads, threads_started, stdout_enabled, injected,
                   baseline, interrupted, fault>>

----------------------------------------------------------------------------

Next ==
    \/ Run
    \/ LoadTest
    \/ LoadTestError
    \/ RunTestReturn
    \/ BaselinePassed
    \/ LoadTarget
    \/ LoadTargetError
    \/ TargetsDone
    \/ Interrupt
    \/ NextMutation
    \/ ModuleDone
    \/ CreateMutantModule
    \/ ExecReturn
    \/ MutateModuleElse
    \/ RunTestsWithMutant
    \/ RunnerRunTest
    \/ RunnerExit
    \/ JoinReturn
    \/ AppendScore
    \/ IncScore

Spec == Init /\ [][Next]_vars

\* a run with one target, one operator and FailfastTests test names of one
\* test case each, so that a mutant's suite has FailfastTests tests
InitFailfast ==
    /\ pc = "run"
    /\ views = <<>>
    /\ names = <<1, FailfastTests>>
    /\ operators = <<1>>
    /\ score = MutationScore
    /\ score_assigned = FALSE
    /\ test_modules = <<>>
    /\ test_idx = 0
    /\ target_idx = 0
    /\ mut_idx = 0
    /\ mutant_module = None
    /\ runner = NoThread
    /\ alive_threads = {}
    /\ threads_started = 0
    /\ join_timed_out = FALSE
    /\ stdout_enabled = TRUE
    /\ injected = None
    /\ baseline = <<>>
    /\ interrupted = FALSE
    /\ fault = "none"

SpecFailfast == InitFailfast /\ [][Next]_vars

----------------------------------------------------------------------------
(* Vocabulary of the properties *)

Last(seq) == seq[Len(seq)]

\* positions of the notifications of the given kinds
Positions(kinds) == {i \in DOMAIN views : views[i].t \in kinds}

\* the steps of mutate_module's loop body: the evaluation of one mutation
EvaluationStep ==
    {"create_mutant_module", "exec", "mutate_module_else",
     "run_tests_with_mutant", "join", "append_score", "inc_timeout",
     "inc_incompetent", "inc_survived", "inc_killed"}

RECURSIVE MutationsBefore(_)
MutationsBefore(target) ==
    IF target <= 1 THEN 0
    ELSE Len(mutate(operators, target - 1)) + MutationsBefore(target - 1)

\* number of mutations taken from the generator so far, over all targets
Taken == IF target_idx = 0 THEN 0 ELSE MutationsBefore(target_idx) + mut_idx

----------------------------------------------------------------------------
----------------------------------------------------------------------------
(* C2: if the unmutated run of a test suite is not successful, the run      *)
(* aborts at that suite: it is the last suite run, the notifications are     *)
(* initialize followed by original-tests-fail carrying that suite's result,  *)
(* no target is loaded, no runner thread is started and no mutant is scored. *)
C2_BaselineFailureAborts ==
    \A i \in DOMAIN baseline :
        ~baseline[i].successful =>
            /\ i = Len(baseline)
            /\ test_idx = i
            /\ pc = "done"
            /\ Len(views) = 2
            /\ views[1].t = "initialize"
            /\ views[2].t = "original_tests_fail"
            /\ views[2].arg = baseline[i]
            /\ target_idx = 0
            /\ Taken = 0
            /\ threads_started = 0
            /\ all_mutants(score) = 0

\* the second of two suites fails, with targets and operators configured
C2_Witness ==
    /\ Len(baseline) = 2
    /\ baseline[1].successful
    /\ ~baseline[2].successful
    /\ names[1] = MaxTargets
    /\ Len(operators) = MaxOperators
    /\ pc = "done"

----------------------------------------------------------------------------
(* C3: an interrupt request never surfaces as a fault: after it the run is  *)
(* over without a fault and its last notification is end, carrying the       *)
(* score accumulated so far.                                                 *)
C3_InterruptReturnsPartialScore ==
    interrupted =>
        /\ fault = "none"
        /\ pc = "done"
        /\ Last(views).t = "end"
        /\ Last(views).arg = score

----------------------------------------------------------------------------
\* a step of create_mutant_module that ends without a module, not by an interrupt
MaterializationFails ==
    /\ pc \in {"create_mutant_module", "exec"}
    /\ pc' \notin {"create_mutant_module", "exec", "run_tests_with_mutant"}
    /\ interrupted' = interrupted

(* C4: a step in which the materialization of a mutant fails (compile or    *)
(* exec does not produce a module) emits one incompetent notification and    *)
(* goes to the else branch of mutate_module, which counts the mutant as      *)
(* incompetent and continues with the next mutation; no runner thread is     *)
(* started on the way.                                                       *)
C4_MaterializationFailureIsIncompetent ==
    [][/\ MaterializationFails =>
            /\ pc' = "mutate_module_else"
            /\ Len(views') = Len(views) + 1
            /\ Last(views').t = "incompetent"
            /\ threads_started' = threads_started
       /\ (pc = "mutate_module_else" /\ interrupted' = interrupted) =>
            /\ pc' = "mutate_module"
            /\ score' = inc_incompetent(score)
            /\ views' = views
            /\ threads_started' = threads_started]_vars

----------------------------------------------------------------------------
(* C5: no fault escapes the evaluation of a mutation: short of an interrupt *)
(* request, the evaluation step is left only towards the next mutation,      *)
(* with exactly one more mutant classified.                                  *)
C5_NoFaultEscapesEvaluation ==
    [][(pc \in EvaluationStep /\ pc' \notin EvaluationStep
            /\ interrupted' = interrupted) =>
          /\ pc' = "mutate_module"
          /\ fault' = "none"
          /\ all_mutants(score') = all_mutants(score) + 1]_vars

----------------------------------------------------------------------------
(* C6: a mutant whose runner thread was still running when join(live_time)  *)
(* returned is classified TimedOut, whatever the thread does before the      *)
(* is_alive() check.                                                         *)
C6_DeadlineElapsedIsTimedOut ==
    (join_timed_out /\ pc \in {"inc_timeout", "inc_incompetent",
                               "inc_survived", "inc_killed"}) =>
        /\ pc = "inc_timeout"
        /\ Last(views).t = "timeout"

----------------------------------------------------------------------------
(* C7: mutants are evaluated one at a time: no runner thread is alive when  *)
(* a mutation notification or the end notification is emitted, and never     *)
(* are two runner threads alive.                                             *)
C7_OneRunnerAtATime ==
    [][/\ (views' # views /\ Last(views').t \in {"mutation", "end"}) =>
              alive_threads = {}
       /\ Cardinality(alive_threads') <= 1]_vars

----------------------------------------------------------------------------
(* C8: notifications of one mutant *)

\* the notifications that end the notifications of a mutant
Boundaries == {"mutation", "end", "cant_load"}

\* the first boundary after position i, or one past the end of the log
SegmentEnd(i) ==
    LET later == {j \in DOMAIN views : j > i /\ views[j].t \in Boundaries}
    IN  IF later = {} THEN Len(views) + 1
        ELSE CHOOSE j \in later : \A k \in later : j <= k

\* number of classification notifications of the mutant announced at i
ClassifiedAfter(i) ==
    Cardinality({k \in (i + 1)..(SegmentEnd(i) - 1) : views[k].t \in Classifications})

----------------------------------------------------------------------------
(* C9: the notifications of a run come in the order initialize, then        *)
(* passed and start (only once every baseline suite has passed), then        *)
(* mutation/classification pairs; a run that is over has exactly one of      *)
(* end, cant-load and original-tests-fail, as its last notification.         *)
Finals == {"end", "cant_load", "original_tests_fail"}

C9_NotificationOrder ==
    /\ views # <<>> => views[1].t = "initialize"
    /\ \A i \in DOMAIN views :
        /\ views[i].t = "initialize" => i = 1
        /\ views[i].t = "passed" =>
              /\ i = 2
              /\ Len(baseline) = names[2]
              /\ \A b \in DOMAIN baseline : baseline[b].successful
        /\ views[i].t = "start" => i = 3 /\ views[2].t = "passed"
        /\ views[i].t = "mutation" =>
              /\ i > 3
              /\ views[i - 1].t \in {"start"} \cup Classifications
        /\ views[i].t \in Classifications => i > 1 /\ views[i - 1].t = "mutation"
        /\ views[i].t \in Finals => i = Len(views)
    /\ pc \in {"done", "crashed"} =>
        /\ views # <<>>
        /\ Last(views).t \in Finals
        /\ Cardinality(Positions(Finals)) = 1

----------------------------------------------------------------------------
(* C10: a run that ends with the cant-load notification has evaluated no    *)
(* mutant: no mutation and no classification notification precedes it.       *)
C10_CantLoadMeansNoMutant ==
    (views # <<>> /\ Last(views).t = "cant_load") =>
        /\ Positions({"mutation"} \cup Classifications) = {}
        /\ Taken = 0
        /\ threads_started = 0

----------------------------------------------------------------------------
(* C11: count() of the score is 100 * (killed + timeout) divided by          *)
(* (all_mutants - incompetent) when that difference is not zero and 0 when   *)
(* it is zero (no division by zero: the denominator of the fraction is       *)
(* positive), and it lies between 0 and 100.                                 *)
C11_CountIsPercentageOfCompetent ==
    LET c == count(score)
        bottom == all_mutants(score) - score.incompetent_mutants
    IN  /\ c.den > 0
        /\ bottom # 0 =>
              c.num * bottom = 100 * (score.killed_mutants + score.timeout_mutants) * c.den
        /\ bottom = 0 => c.num = 0
        /\ 0 <= c.num
        /\ c.num <= 100 * c.den

\* a score with incompetent, killed and survived mutants: the count is a
\* proper fraction over the competent mutants
C11_Witness ==
    /\ score.incompetent_mutants >= 1
    /\ score.killed_mutants >= 1
    /\ score.survived_mutants >= 1
    /\ pc = "done"

----------------------------------------------------------------------------
\* the classification the terminal state of a mutant's run calls for
TerminalOutcome ==
    IF is_alive(runner) THEN "timeout"
    ELSE IF runner.result.type_error # None THEN "incompetent"
    ELSE IF wasSuccessful(runner.result) THEN "survived"
    ELSE "killed"

\* the position of the controller before the counter of a classification
IncOf(kind) ==
    CASE kind = "timeout" -> "inc_timeout"
      [] kind = "incompetent" -> "inc_incompetent"
      [] kind = "survived" -> "inc_survived"
      [] kind = "killed" -> "inc_killed"

(* C12: append_score_and_notify_views classifies by priority (thread alive: *)
(* TimedOut and kill; else type error: Incompetent; else successful:         *)
(* Survived; else Killed), it emits the notification of exactly that         *)
(* outcome and then increments the counter of the same outcome; so a run     *)
(* with all tests passing is never Killed and one with a failure or error    *)
(* is never Survived.                                                        *)
C12_ClassificationPriority ==
    [][/\ (pc = "append_score" /\ pc' # pc /\ interrupted' = interrupted) =>
            /\ Len(views') = Len(views) + 1
            /\ Last(views').t = TerminalOutcome
            /\ pc' = IncOf(TerminalOutcome)
            /\ is_alive(runner) => ~is_alive(runner)'
            /\ Last(views').t = "killed" => ~wasSuccessful(runner.result)
            /\ Last(views').t = "survived" =>
                   runner.result.failures = <<>> /\ runner.result.errors = <<>>
       /\ \A kind \in Classifications :
            (pc = IncOf(kind) /\ pc' # pc /\ interrupted' = interrupted) =>
                /\ Last(views).t = kind
                /\ views' = views
                /\ all_mutants(score') = all_mutants(score) + 1
                /\ score' = CASE kind = "timeout" -> inc_timeout(score)
                              [] kind = "incompetent" -> inc_incompetent(score)
                              [] kind = "survived" -> inc_survived(score)
                              [] kind = "killed" -> inc_killed(score)]_vars

----------------------------------------------------------------------------
(* C13: the killed notification of a mutant carries the test and the        *)
(* traceback of the first entry of the failures list when that list is not   *)
(* empty, whether or not errors were recorded too (before or after it), and  *)
(* those of the first entry of the errors list when the failures list is     *)
(* empty.                                                                    *)
C13_KillerIsFirstFailureElseFirstError ==
    pc = "inc_killed" =>
        LET result == runner.result
            killed == Last(views)
            first == IF result.failures # <<>> THEN result.failures[1]
                     ELSE result.errors[1]
        IN  /\ killed.t = "killed"
            /\ result.failures = <<>> => result.errors # <<>>
            /\ killed.arg.killer = first[1]
            /\ killed.arg.exception_traceback = first[2]

\* a killed mutant whose run recorded both a failure and an error
C13_Witness ==
    /\ pc = "inc_killed"
    /\ runner.result.failures # <<>>
    /\ runner.result.errors # <<>>
    /\ runner.result.errors[1] # runner.result.failures[1]
    /\ Last(views).arg.exception_traceback = runner.result.failures[1][2]

----------------------------------------------------------------------------
\* D: the sum of the recorded durations of the validated test suites
BaselineDuration == DurationFrom(test_modules, 1)

(* C14: the deadline of the runner thread's join is timeout_factor times D   *)
(* when D is more than one time unit and exactly one time unit when D is at  *)
(* most one time unit (D = 0, a fraction of a unit, or exactly one unit),    *)
(* so it is never zero; D is the sum of the baseline durations of all        *)
(* validated test suites.                                                    *)
C14_DeadlineIsFactorTimesBaselineWithFloor ==
    runner # NoThread =>
        /\ BaselineDuration > Unit =>
              runner.live_time = timeout_factor * BaselineDuration
        /\ BaselineDuration <= Unit => runner.live_time = Unit
        /\ runner.live_time >= Unit
        /\ Len(test_modules) = Len(baseline)
        /\ \A i \in DOMAIN baseline : baseline[i].successful

\* the controller waits for a runner thread with a baseline total of one
\* unit and a half
C14_Witness ==
    /\ pc = "join"
    /\ Len(test_modules) = 2
    /\ BaselineDuration > Unit
    /\ BaselineDuration < 2 * Unit
    /\ runner.live_time = timeout_factor * BaselineDuration

----------------------------------------------------------------------------
(* C15: output suppression is scoped: every step that disables stdout       *)
(* enables it again however it ends, so stdout is enabled whenever a         *)
(* notification is emitted, whenever the controller is at the head of the    *)
(* mutation loop, and when the run is over.                                  *)
C15_StdoutEnabledOutsideSuppressedSteps ==
    [][/\ views' # views => stdout_enabled'
       /\ pc' \in {"mutate_module", "mutate_module_else", "done"} => stdout_enabled']_vars

----------------------------------------------------------------------------
(* C16: the substitution of the target is applied and reverted around each  *)
(* mutant run: while a mutant's runner thread exists the test modules refer  *)
(* to that mutant's variant, and once run_tests_with_mutant has returned     *)
(* (between mutants, between targets and after the run) they refer to the    *)
(* unmutated original again.                                                 *)
C16_InjectionRevertedAfterRun ==
    /\ (pc \in {"join", "append_score"} /\ test_modules # <<>>) =>
           injected = mutant_module /\ injected # None
    /\ pc \in {"mutate_module", "target_loader", "done"} => injected = None

----------------------------------------------------------------------------
(* C17: fail-fast of a mutant's test run *)

\* the tests that have an entry in the failures or in the errors
FailedTests(result) ==
    {result.failures[i][1] : i \in DOMAIN result.failures}
        \cup {result.errors[i][1] : i \in DOMAIN result.errors}

\* the result of every runner thread has failfast set from the start; once a
\* failure or an error is recorded the run is told to stop and the failing
\* test stays the last test started
FailfastStops ==
    runner # NoThread =>
        /\ runner.result.failfast
        /\ FailedTests(runner.result) # {} =>
              /\ runner.result.shouldStop
              /\ FailedTests(runner.result) = {runner.suite[runner.result.testsRun]}

(* C17 as claimed: the result has failfast set before the suite starts, no  *)
(* test is started after the first failing or erroring test is recorded,     *)
(* and the mutant is classified Killed with that test as the killer.         *)
C17_FailfastThenKilled ==
    /\ FailfastStops
    /\ (pc \in {"inc_timeout", "inc_incompetent", "inc_survived", "inc_killed"}
            /\ FailedTests(runner.result) # {}) =>
           /\ pc = "inc_killed"
           /\ Last(views).arg.killer = runner.suite[runner.result.testsRun]

(* C17 amended: the result has failfast set before the suite starts and no  *)
(* test is started after the first failing or erroring test is recorded;     *)
(* the mutant is classified Killed with that test as the killer when its     *)
(* runner thread is found terminated and no execution-environment error was  *)
(* recorded, TimedOut when the thread is found alive, and Incompetent when   *)
(* an execution-environment error was recorded by an earlier test.           *)
C17_FailfastThenKilledIfCompleted ==
    /\ FailfastStops
    /\ (pc \in {"inc_timeout", "inc_incompetent", "inc_survived", "inc_killed"}
            /\ FailedTests(runner.result) # {}) =>
           /\ pc \in {"inc_killed", "inc_timeout", "inc_incompetent"}
           /\ pc = "inc_killed" =>
                 Last(views).arg.killer = runner.suite[runner.result.testsRun]
           /\ pc = "inc_incompetent" => runner.result.type_error # None
           /\ (runner.result.type_error = None /\ ~join_timed_out) =>
                 pc = "inc_killed"

\* five tests, the first passes and the second fails: the other three are
\* never started and the second test is the killer
C17_Witness ==
    /\ pc = "inc_killed"
    /\ Len(runner.suite) = 5
    /\ runner.result.testsRun = 2
    /\ FailedTests(runner.result) = {runner.suite[2]}
    /\ Last(views).t = "killed"
    /\ Last(views).arg.killer = runner.suite[2]

----------------------------------------------------------------------------
(* C18: order of Mutator.mutate *)

\* number of mutations the operators registered before position i yield
RECURSIVE YieldedBefore(_, _, _)
YieldedBefore(ops, i, target) ==
    IF i <= 1 THEN 0
    ELSE YieldedBefore(ops, i - 1, target) + Len(OperatorMutate(ops[i - 1], target))

\* mutate(ops, target) is the mutations of the first registered operator in
\* the order it yields them, then those of the second, and so on
GroupedInRegistrationOrder(ops, target) ==
    LET enumerated == mutate(ops, target)
    IN  /\ Len(enumerated) = YieldedBefore(ops, Len(ops) + 1, target)
        /\ \A i \in DOMAIN ops :
             LET yielded == OperatorMutate(ops[i], target)
                 before == YieldedBefore(ops, i, target)
             IN  \A k \in DOMAIN yielded :
                    /\ enumerated[before + k].op = ops[i]
                    /\ enumerated[before + k].lineno = yielded[k].lineno
                    /\ enumerated[before + k].mutant = yielded[k].mutant

\* the mutation notifications of the current target, in order
MutationsNotified ==
    SelectSeq(views, LAMBDA n : n.t = "mutation" /\ n.arg.filename = target_idx)

(* C18: Mutator.mutate yields the mutations grouped by operator in          *)
(* registration order and, within an operator, in the order the operator     *)
(* yields them; the mutations the controller has taken for the current       *)
(* target so far, as announced by its mutation notifications, are the first  *)
(* ones of that order for the operator list as it is now (the enumeration    *)
(* has not changed the list).                                                *)
C18_MutateInRegistrationOrder ==
    target_idx >= 1 =>
        LET enumerated == mutate(operators, target_idx)
            notified == MutationsNotified
        IN  /\ GroupedInRegistrationOrder(operators, target_idx)
            /\ Len(notified) = mut_idx
            /\ \A k \in 1..mut_idx :
                  /\ notified[k].arg.op = enumerated[k].op
                  /\ notified[k].arg.lineno = enumerated[k].lineno

\* all three mutations of the first target have been taken, from two
\* operators of which the second registered is the one numbered lower
C18_Witness ==
    /\ target_idx = 1
    /\ operators = <<2, 1>>
    /\ mut_idx = 3
    /\ Len(MutationsNotified) = 3
    /\ MutationsNotified[3].arg.op = 1

----------------------------------------------------------------------------
\* the mutation notifications of the whole run, in order
AllMutationsNotified == SelectSeq(views, LAMBDA n : n.t = "mutation")

(* C19: the index carried by the mutation notifications is consecutive over *)
(* the whole run: the first one has index 1 and each later one the index of  *)
(* the one before plus 1, across targets too.                                *)
C19_MutationIndexIsConsecutive ==
    \A k \in DOMAIN AllMutationsNotified : AllMutationsNotified[k].arg.number = k

\* the fourth mutation notification of a run is the first one of the second
\* target
C19_Witness ==
    /\ Len(AllMutationsNotified) = 4
    /\ AllMutationsNotified[3].arg.filename = 1
    /\ AllMutationsNotified[4].arg.filename = 2
    /\ AllMutationsNotified[4].arg.number = 4

----------------------------------------------------------------------------
(* C20: the controller reads a mutant's result only after that mutant's     *)
(* runner thread has terminated: a classification taken from the result      *)
(* (incompetent by type error, survived, killed) is made with the thread     *)
(* dead and still agrees with the result afterwards; the timed-out           *)
(* classification carries nothing of the result; and every runner thread     *)
(* is the newest thread and starts on a result with nothing recorded.        *)
C20_ResultReadAfterThreadEnded ==
    /\ pc \in {"inc_incompetent", "inc_survived", "inc_killed"} =>
          /\ ~is_alive(runner)
          /\ Last(views).t = TerminalOutcome
    /\ (pc = "crashed" /\ fault = "UnboundLocalError: killer") => ~is_alive(runner)
    /\ pc = "inc_timeout" =>
          /\ Last(views).t = "timeout"
          /\ Last(views).arg = 0
          /\ ~is_alive(runner)
    /\ runner # NoThread =>
          /\ runner.ident = threads_started
          /\ runner.result.testsRun = 0 =>
                runner.result = [CustomTestResult EXCEPT !.failfast = TRUE]

\* the join ran out of time, the thread ended before the is_alive() check
\* and the mutant is classified from the result the thread left
C20_Witness ==
    /\ pc = "inc_killed"
    /\ join_timed_out
    /\ ~is_alive(runner)
    /\ runner.result.testsRun = Len(runner.suite)
    /\ Len(runner.suite) = 2

====
